---- MODULE Spec2Model ----
(***************************************************************************)
(* Model of the evaluation engine of ontology_quiz_generator.py: module    *)
(* initialisation (optional imports, backend selection, reference texts),  *)
(* load_mcq_bank, bert_similarity, evaluate_material and                   *)
(* create_evaluation_table.                                                *)
(*                                                                         *)
(* Texts are sequences of one-character strings, so that lower() and       *)
(* split() are computed.  Python floats are modelled as exact rationals    *)
(* <<numerator, denominator>> in lowest terms: every float of the model is *)
(* a quotient of two small integers or a literal such as 0.9, and the      *)
(* correctly rounded quotient n/d compares with a literal p/q exactly as   *)
(* the rationals do.                                                       *)
(***************************************************************************)
EXTENDS Integers, Sequences, FiniteSets, TLC

VARIABLES pc, HAS_SKLEARN, MODEL, util, LEARNING_MATERIALS, call, result

vars == <<pc, HAS_SKLEARN, MODEL, util, LEARNING_MATERIALS, call, result>>

(***************************************************************************)
(* Bounds of the model.                                                    *)
(***************************************************************************)
\* longest domains sequence passed to create_evaluation_table
MaxDomains == 2
\* most data rows in a CSV file read by load_mcq_bank
MaxRows == 2

(***************************************************************************)
(* Python floats as rationals.                                             *)
(***************************************************************************)
Abs(n) == IF n < 0 THEN -n ELSE n

RECURSIVE GCD(_, _)
GCD(a, b) == IF b = 0 THEN a ELSE GCD(b, a % b)

\* the float n / d, d # 0
Frac(n, d) ==
    LET g == GCD(Abs(n), Abs(d))
        s == IF d < 0 THEN -1 ELSE 1
    IN  <<(s * n) \div g, (s * d) \div g>>

Zero == Frac(0, 1)
One == Frac(1, 1)

FLt(x, y) == x[1] * y[2] < y[1] * x[2]
FLeq(x, y) == x[1] * y[2] <= y[1] * x[2]
FAdd(x, y) == Frac(x[1] * y[2] + y[1] * x[2], x[2] * y[2])
FMul(x, y) == Frac(x[1] * y[1], x[2] * y[2])
\* x / y, y # 0
FDiv(x, y) == Frac(x[1] * y[2], x[2] * y[1])

(***************************************************************************)
(* str.lower() and str.split() on character sequences.                     *)
(***************************************************************************)
UpperCase ==
    <<"A", "B", "C", "D", "E", "F", "G", "H", "I", "J", "K", "L", "M",
      "N", "O", "P", "Q", "R", "S", "T", "U", "V", "W", "X", "Y", "Z">>
LowerCase ==
    <<"a", "b", "c", "d", "e", "f", "g", "h", "i", "j", "k", "l", "m",
      "n", "o", "p", "q", "r", "s", "t", "u", "v", "w", "x", "y", "z">>

Whitespace == {" ", "\t", "\n"}

LowerChar(c) ==
    IF \E i \in DOMAIN UpperCase : UpperCase[i] = c
    THEN LowerCase[CHOOSE i \in DOMAIN UpperCase : UpperCase[i] = c]
    ELSE c

\* text.lower()
Lower(text) == [i \in DOMAIN text |-> LowerChar(text[i])]

RECURSIVE SplitAcc(_, _, _)
SplitAcc(rest, cur, acc) ==
    IF rest = <<>>
    THEN IF cur = <<>> THEN acc ELSE Append(acc, cur)
    ELSE IF Head(rest) \in Whitespace
         THEN SplitAcc(Tail(rest), <<>>, IF cur = <<>> THEN acc ELSE Append(acc, cur))
         ELSE SplitAcc(Tail(rest), Append(cur, Head(rest)), acc)

\* text.split(): the maximal runs of non-whitespace characters, in order
Split(text) == SplitAcc(text, <<>>, <<>>)

\* set(sequence)
SetOf(seq) == {seq[i] : i \in DOMAIN seq}

(***************************************************************************)
(* Texts.                                                                  *)
(***************************************************************************)
NoMaterial ==
    <<"N", "o", " ", "m", "a", "t", "e", "r", "i", "a", "l", "s", " ", "a",
      "v", "a", "i", "l", "a", "b", "l", "e", " ", "f", "o", "r", " ", "t",
      "h", "i", "s", " ", "t", "o", "p", "i", "c", ".">>
EmptyText == <<>>
PythonLists == <<"p", "y", "t", "h", "o", "n", " ", "l", "i", "s", "t", "s">>
ListsDescription ==
    <<"M", "u", "t", "a", "b", "l", "e", " ", "o", "r", "d", "e", "r", "e",
      "d", " ", "c", "o", "l", "l", "e", "c", "t", "i", "o", "n", "s", ".">>
TheCatSat == <<"t", "h", "e", " ", "c", "a", "t", " ", "s", "a", "t">>
TheDogSat == <<"t", "h", "e", " ", "d", "o", "g", " ", "s", "a", "t">>
TheCATSat == <<"T", "h", "e", " ", " ", "C", "A", "T", "\n", "s", "a", "t", " ">>
TheCat == <<"t", "h", "e", " ", "c", "a", "t">>
Blank == <<" ", "\t">>

\* the texts handed to bert_similarity and evaluate_material
Texts ==
    {EmptyText, Blank, NoMaterial, PythonLists, ListsDescription,
     TheCat, TheCatSat, TheDogSat, TheCATSat}

\* the domain names used as arguments
Domains == {"A", "B", "Lists"}

(***************************************************************************)
(* Python dictionaries are functions; dict.get(key, default).              *)
(***************************************************************************)
DictGet(dict, key, default) == IF key \in DOMAIN dict THEN dict[key] ELSE default

SeqsUpTo(S, n) == UNION {[1..k -> S] : k \in 0..n}

(***************************************************************************)
(* The reference texts.  LEARNING_MATERIALS maps every ontology node name  *)
(* to its description; OntologyLookup is that mapping restricted to the    *)
(* domain names of the model ("Lists" is an ontology node, "A" and "B" are *)
(* not).  FixtureLookup is the lookup of the end-to-end property.          *)
(***************************************************************************)
OntologyLookup == "Lists" :> ListsDescription
FixtureLookup == ("A" :> PythonLists) @@ ("B" :> EmptyText)
ReferenceLookups == {OntologyLookup, FixtureLookup}

(***************************************************************************)
(* The embedding backend.  MODEL.encode and util.cos_sim are opaque: a     *)
(* loaded model is abstracted to the cosine it yields for a text against   *)
(* itself (about 1) and the one it yields for two different texts (any     *)
(* value of [-1, 1]); it is chosen when the model is loaded and fixed      *)
(* from then on.  util is {} for None and {embedding} when loaded.         *)
(***************************************************************************)
SelfCosines == {Frac(99, 100), One}
OtherCosines == {Frac(-1, 10), Frac(7, 10), Frac(4, 5), Frac(9, 10), Frac(19, 20)}
Embeddings == [same : SelfCosines, differ : OtherCosines]

\* float(util.cos_sim(MODEL.encode(text_a), MODEL.encode(text_b)))
cos_sim(text_a, text_b) ==
    LET e == CHOOSE e \in util : TRUE
    IN  IF text_a = text_b THEN e.same ELSE e.differ

\* variant: the fallback without .lower()
bert_similarity_CaseSensitive(text_a, text_b) ==
    IF MODEL = "None" \/ util = {}
    THEN LET set_a == SetOf(Split(text_a))
             set_b == SetOf(Split(text_b))
         IN  IF set_a = {} /\ set_b = {}
             THEN One
             ELSE Frac(Cardinality(set_a \cap set_b), Cardinality(set_a \cup set_b))
    ELSE IF text_a = <<>> /\ text_b = <<>>
         THEN One
         ELSE cos_sim(text_a, text_b)

\* variant: the fallback dividing by len(set_a) where set_a is not empty
bert_similarity_OverFirstSet(text_a, text_b) ==
    IF MODEL = "None" \/ util = {}
    THEN LET set_a == SetOf(Split(Lower(text_a)))
             set_b == SetOf(Split(Lower(text_b)))
         IN  IF set_a = {} /\ set_b = {}
             THEN One
             ELSE IF set_a = {}
                  THEN Zero
                  ELSE Frac(Cardinality(set_a \cap set_b), Cardinality(set_a))
    ELSE IF text_a = <<>> /\ text_b = <<>>
         THEN One
         ELSE cos_sim(text_a, text_b)

\* variant: two empty inputs score 0.0
bert_similarity_EmptyIsZero(text_a, text_b) ==
    IF MODEL = "None" \/ util = {}
    THEN LET set_a == SetOf(Split(Lower(text_a)))
             set_b == SetOf(Split(Lower(text_b)))
         IN  IF set_a = {} /\ set_b = {}
             THEN Zero
             ELSE Frac(Cardinality(set_a \cap set_b), Cardinality(set_a \cup set_b))
    ELSE IF text_a = <<>> /\ text_b = <<>>
         THEN Zero
         ELSE cos_sim(text_a, text_b)

bert_similarity(text_a, text_b) ==
    IF MODEL = "None" \/ util = {}
    THEN LET set_a == SetOf(Split(Lower(text_a)))
             set_b == SetOf(Split(Lower(text_b)))
         IN  IF set_a = {} /\ set_b = {}
             THEN One
             ELSE Frac(Cardinality(set_a \cap set_b), Cardinality(set_a \cup set_b))
    ELSE IF text_a = <<>> /\ text_b = <<>>
         THEN One
         ELSE cos_sim(text_a, text_b)

\* variant: a missing domain yields the empty string
generate_learning_material_EmptyDefault(domain) ==
    DictGet(LEARNING_MATERIALS, domain, EmptyText)

generate_learning_material(domain) == DictGet(LEARNING_MATERIALS, domain, NoMaterial)

generate_mcqs(domain, bank) == DictGet(bank, domain, <<>>)

\* variant: a missing domain is scored against the sentinel text
evaluate_material_SentinelReference(material, domain) ==
    LET reference == DictGet(LEARNING_MATERIALS, domain, NoMaterial)
    IN  bert_similarity(material, reference)

evaluate_material(material, domain) ==
    LET reference == DictGet(LEARNING_MATERIALS, domain, EmptyText)
    IN  bert_similarity(material, reference)

(***************************************************************************)
(* load_mcq_bank.  A CSV file is its header and its data rows, each a      *)
(* sequence of cells (csv.DictReader skips empty rows, so a row has at     *)
(* least its first cell).  Domain cells are names; the other cells are     *)
(* texts.  None stands for Python's None, which DictReader stores for a    *)
(* column the row is too short to reach.                                   *)
(***************************************************************************)
None == <<"None">>
NoneText == <<"N", "o", "n", "e">>
Beginner == <<"B", "e", "g", "i", "n", "n", "e", "r">>
Advanced == <<"A", "d", "v", "a", "n", "c", "e", "d">>

FullHeader == <<"Domain", "Question", "A", "B", "C", "D", "Answer", "Difficulty">>
NoDifficultyHeader == <<"Domain", "Question", "A", "B", "C", "D", "Answer">>
NoAnswerHeader == <<"Domain", "Question", "A", "B", "C", "D", "Difficulty">>
Headers == {FullHeader, NoDifficultyHeader, NoAnswerHeader}

ListsRow == <<"Lists", <<"q", "1">>, <<"w">>, <<"x">>, <<"y">>, <<"z">>, <<"w">>, Advanced>>
ARow == <<"A", <<"q", "2">>, <<"x">>, <<"y">>, <<"z">>, <<"w">>, <<"y">>, Beginner>>
ShortRow == <<"Lists", <<"q", "3">>, <<"w">>, <<"x">>>>
CompleteRows == {ListsRow, ARow}
DataRows == CompleteRows \cup {ShortRow}

CsvFiles ==
    {[exists |-> FALSE, header |-> <<>>, rows |-> <<>>]}
    \cup {[exists |-> TRUE, header |-> h, rows |-> r] :
             h \in Headers, r \in SeqsUpTo(DataRows, MaxRows)}

\* the dictionary csv.DictReader yields for one row
DictRow(header, cells) ==
    [k \in SetOf(header) |->
        LET i == CHOOSE i \in DOMAIN header : header[i] = k
        IN  IF i <= Len(cells) THEN cells[i] ELSE None]

RequiredKeys == <<"Domain", "Question", "A", "B", "C", "D", "Answer">>

\* the first key whose row[key] raises KeyError, or "" when none does
MissingKey(row) ==
    IF \A i \in DOMAIN RequiredKeys : RequiredKeys[i] \in DOMAIN row
    THEN ""
    ELSE RequiredKeys[CHOOSE i \in DOMAIN RequiredKeys :
                          /\ RequiredKeys[i] \notin DOMAIN row
                          /\ \A j \in 1..(i - 1) : RequiredKeys[j] \in DOMAIN row]

McqOf(row) ==
    [question |-> row["Question"],
     options |-> <<row["A"], row["B"], row["C"], row["D"]>>,
     answer |-> row["Answer"],
     difficulty |-> DictGet(row, "Difficulty", Beginner)]

\* bank.setdefault(domain, []).append(mcq)
SetDefaultAppend(bank, domain, mcq) ==
    IF domain \in DOMAIN bank
    THEN [bank EXCEPT ![domain] = Append(@, mcq)]
    ELSE bank @@ (domain :> <<mcq>>)

RECURSIVE LoadRows(_, _, _)
LoadRows(header, rows, bank) ==
    IF rows = <<>>
    THEN [kind |-> "ok", bank |-> bank]
    ELSE LET row == DictRow(header, Head(rows))
         IN  IF MissingKey(row) # ""
             THEN [kind |-> "raise", exc |-> "KeyError", key |-> MissingKey(row)]
             ELSE LoadRows(header, Tail(rows),
                           SetDefaultAppend(bank, row["Domain"], McqOf(row)))

load_mcq_bank(file) ==
    IF ~file.exists
    THEN [kind |-> "raise", exc |-> "FileNotFoundError", key |-> ""]
    ELSE LoadRows(file.header, file.rows, <<>>)

\* the question banks handed to create_evaluation_table, each loaded from a
\* file with every column and complete rows
BankRows == {<<>>, <<ListsRow>>, <<ListsRow, ARow>>, <<ListsRow, ListsRow>>}
Banks ==
    {load_mcq_bank([exists |-> TRUE, header |-> FullHeader, rows |-> r]).bank :
        r \in BankRows}

(***************************************************************************)
(* create_evaluation_table.                                                *)
(***************************************************************************)
Thresholds == {Zero, Frac(7, 10), Frac(9, 10), One}

\* f"{value}" of a cell
Str(value) == IF value = None THEN NoneText ELSE value

RECURSIVE Flatten(_)
Flatten(seqs) == IF seqs = <<>> THEN <<>> ELSE Head(seqs) \o Flatten(Tail(seqs))

\* the lines appended to mcq_lines for one question
McqLines(mcq) ==
    <<<<"Q", ":", " ">> \o Str(mcq.question)>>
    \o [i \in DOMAIN mcq.options |-> <<" ", "-", " ">> \o Str(mcq.options[i])]
    \o <<<<"A", "n", "s", "w", "e", "r", ":", " ">> \o Str(mcq.answer), <<>>>>

\* "\n".join(lines)
JoinLines(lines) ==
    Flatten([i \in DOMAIN lines |-> IF i = 1 THEN lines[i] ELSE <<"\n">> \o lines[i]])

McqText(mcqs) == JoinLines(Flatten([i \in DOMAIN mcqs |-> McqLines(mcqs[i])]))

\* variant: 1 if score > threshold else 0
Predicted_Strict(score, threshold) == IF FLt(threshold, score) THEN 1 ELSE 0

\* 1 if score >= threshold else 0
Predicted(score, threshold) == IF FLeq(threshold, score) THEN 1 ELSE 0

\* variant: inclusive cutoffs, score >= 0.9 and score >= 0.7
Description_Inclusive(score) ==
    IF FLeq(Frac(9, 10), score)
    THEN "Excellent alignment with reference material."
    ELSE IF FLeq(Frac(7, 10), score)
         THEN "Good alignment but could improve in specific areas."
         ELSE "Moderate alignment, requires improvements in content generation."

Description(score) ==
    IF FLt(Frac(9, 10), score)
    THEN "Excellent alignment with reference material."
    ELSE IF FLt(Frac(7, 10), score)
         THEN "Good alignment but could improve in specific areas."
         ELSE "Moderate alignment, requires improvements in content generation."

\* f"{score * 100:.2f}%", as the number of hundredths of a percent it shows
FormatPercent(score) == (2 * 10000 * score[1] + score[2]) \div (2 * score[2])

\* one iteration of the loop over domains: the row appended to table and the
\* local variable score
Iteration(domain, mcq_bank) ==
    LET material == generate_learning_material(domain)
        score == evaluate_material(material, domain)
        mcqs == generate_mcqs(domain, mcq_bank)
    IN  [score |-> score,
         row |-> [Domain |-> domain,
                  Material |-> material,
                  AccuracyScore |-> FormatPercent(score),
                  MCQs |-> McqText(mcqs),
                  Description |-> Description(score)]]

\* the number of positions where y_true is t and y_pred is p
CountPairs(y_true, y_pred, t, p) ==
    Cardinality({i \in DOMAIN y_true \cap DOMAIN y_pred : y_true[i] = t /\ y_pred[i] = p})

NaN == <<0, 0>>

compute_metrics(y_true, y_pred) ==
    LET tp == CountPairs(y_true, y_pred, 1, 1)
        fp == CountPairs(y_true, y_pred, 0, 1)
        fn == CountPairs(y_true, y_pred, 1, 0)
        tn == CountPairs(y_true, y_pred, 0, 0)
        precision == IF tp + fp # 0 THEN Frac(tp, tp + fp) ELSE Zero
        recall == IF tp + fn # 0 THEN Frac(tp, tp + fn) ELSE Zero
        f1 == IF FAdd(precision, recall) # Zero
              THEN FDiv(FMul(FMul(Frac(2, 1), precision), recall), FAdd(precision, recall))
              ELSE Zero
    IN  IF tp + fp + fn + tn = 0
        THEN [kind |-> "raise", exc |-> "ZeroDivisionError"]
        ELSE [kind |-> "ok",
              metrics |-> [accuracy |-> Frac(tp + tn, tp + fp + fn + tn),
                           precision |-> precision, recall |-> recall, f1 |-> f1]]

(***************************************************************************)
(* The sklearn.metrics functions, for the binary labels of this program    *)
(* and zero_division=0.  What accuracy_score does with no samples depends  *)
(* on the library version: it returns nan (the mean of nothing) or raises  *)
(* ValueError; on_empty is that outcome.                                   *)
(***************************************************************************)
SklearnOnEmpty == {"nan", "raise"}

sklearn_metrics(y_true, y_pred, on_empty) ==
    LET tp == CountPairs(y_true, y_pred, 1, 1)
        fp == CountPairs(y_true, y_pred, 0, 1)
        fn == CountPairs(y_true, y_pred, 1, 0)
        n == Len(y_true)
        same == Cardinality({i \in DOMAIN y_true : y_true[i] = y_pred[i]})
        precision == IF tp + fp # 0 THEN Frac(tp, tp + fp) ELSE Zero
        recall == IF tp + fn # 0 THEN Frac(tp, tp + fn) ELSE Zero
        f1 == IF 2 * tp + fp + fn # 0 THEN Frac(2 * tp, 2 * tp + fp + fn) ELSE Zero
    IN  IF n = 0 /\ on_empty = "raise"
        THEN [kind |-> "raise", exc |-> "ValueError"]
        ELSE [kind |-> "ok",
              metrics |-> [accuracy |-> IF n = 0 THEN NaN ELSE Frac(same, n),
                           precision |-> precision, recall |-> recall, f1 |-> f1]]

create_evaluation_table(domains, mcq_bank, threshold, on_empty) ==
    LET loop == [i \in DOMAIN domains |-> Iteration(domains[i], mcq_bank)]
        table == [i \in DOMAIN domains |-> loop[i].row]
        scores == [i \in DOMAIN domains |-> loop[i].score]
        y_true == [i \in DOMAIN domains |-> 1]
        y_pred == [i \in DOMAIN domains |-> Predicted(scores[i], threshold)]
        m == IF HAS_SKLEARN
             THEN sklearn_metrics(y_true, y_pred, on_empty)
             ELSE compute_metrics(y_true, y_pred)
    IN  IF m.kind = "raise"
        THEN [kind |-> "raise", exc |-> m.exc]
        ELSE [kind |-> "ok", table |-> table, metrics |-> m.metrics,
              scores |-> scores, y_true |-> y_true, y_pred |-> y_pred]

(***************************************************************************)
(* The program: module initialisation, then calls from a caller (main, the *)
(* web application, a test).  call is the call in progress and result what *)
(* it returned or raised.                                                  *)
(***************************************************************************)
NoCall == [op |-> "none"]
NoResult == [kind |-> "none"]

Init ==
    /\ pc = "import_sklearn"
    /\ HAS_SKLEARN = FALSE
    /\ MODEL = "unset"
    /\ util = {}
    /\ LEARNING_MATERIALS = <<>>
    /\ call = NoCall
    /\ result = NoResult

\* try: from sklearn.metrics import ... except Exception: _HAS_SKLEARN = False
ImportSklearn ==
    /\ pc = "import_sklearn"
    /\ HAS_SKLEARN' \in BOOLEAN
    /\ pc' = "load_model"
    /\ UNCHANGED <<MODEL, util, LEARNING_MATERIALS, call, result>>

\* try: MODEL = SentenceTransformer(...) except Exception: MODEL = None
LoadModel ==
    /\ pc = "load_model"
    /\ \/ \E e \in Embeddings : MODEL' = "SentenceTransformer" /\ util' = {e}
       \/ MODEL' = "None" /\ util' = {}
    /\ pc' = "build_materials"
    /\ UNCHANGED <<HAS_SKLEARN, LEARNING_MATERIALS, call, result>>

\* LEARNING_MATERIALS = ontology_as_dict(ONTOLOGY_ROOT); LEARNING_MATERIALS.update(...)
BuildLearningMaterials ==
    /\ pc = "build_materials"
    /\ LEARNING_MATERIALS' \in ReferenceLookups
    /\ pc' = "ready"
    /\ UNCHANGED <<HAS_SKLEARN, MODEL, util, call, result>>

LoadMcqBankCall ==
    /\ pc = "ready"
    /\ \E file \in CsvFiles :
          /\ call' = [op |-> "load_mcq_bank", file |-> file]
          /\ result' = load_mcq_bank(file)
    /\ pc' = "returned"
    /\ UNCHANGED <<HAS_SKLEARN, MODEL, util, LEARNING_MATERIALS>>

\* variant: a call made under the fallback tries to load the model again
BertSimilarityCall_Reloading ==
    /\ pc = "ready"
    /\ \E text_a \in Texts, text_b \in Texts :
          /\ call' = [op |-> "bert_similarity", text_a |-> text_a, text_b |-> text_b]
          /\ result' = [kind |-> "ok", value |-> bert_similarity(text_a, text_b)]
    /\ pc' = "returned"
    /\ IF MODEL = "None"
       THEN \/ \E e \in Embeddings : MODEL' = "SentenceTransformer" /\ util' = {e}
            \/ UNCHANGED <<MODEL, util>>
       ELSE UNCHANGED <<MODEL, util>>
    /\ UNCHANGED <<HAS_SKLEARN, LEARNING_MATERIALS>>

BertSimilarityCall ==
    /\ pc = "ready"
    /\ \E text_a \in Texts, text_b \in Texts :
          /\ call' = [op |-> "bert_similarity", text_a |-> text_a, text_b |-> text_b]
          /\ result' = [kind |-> "ok", value |-> bert_similarity(text_a, text_b)]
    /\ pc' = "returned"
    /\ UNCHANGED <<HAS_SKLEARN, MODEL, util, LEARNING_MATERIALS>>

EvaluateMaterialCall ==
    /\ pc = "ready"
    /\ \E material \in Texts, domain \in Domains :
          /\ call' = [op |-> "evaluate_material", material |-> material, domain |-> domain]
          /\ result' = [kind |-> "ok", value |-> evaluate_material(material, domain)]
    /\ pc' = "returned"
    /\ UNCHANGED <<HAS_SKLEARN, MODEL, util, LEARNING_MATERIALS>>

CreateEvaluationTableCall ==
    /\ pc = "ready"
    /\ \E domains \in SeqsUpTo(Domains, MaxDomains), mcq_bank \in Banks,
          threshold \in Thresholds :
       \E on_empty \in (IF HAS_SKLEARN /\ domains = <<>> THEN SklearnOnEmpty ELSE {"nan"}) :
          /\ call' = [op |-> "create_evaluation_table", domains |-> domains,
                      mcq_bank |-> mcq_bank, threshold |-> threshold]
          /\ result' = create_evaluation_table(domains, mcq_bank, threshold, on_empty)
    /\ pc' = "returned"
    /\ UNCHANGED <<HAS_SKLEARN, MODEL, util, LEARNING_MATERIALS>>

\* the caller has the result and goes on to its next call
ReturnToCaller ==
    /\ pc = "returned"
    /\ pc' = "ready"
    /\ call' = NoCall
    /\ result' = NoResult
    /\ UNCHANGED <<HAS_SKLEARN, MODEL, util, LEARNING_MATERIALS>>

Next ==
    \/ ImportSklearn
    \/ LoadModel
    \/ BuildLearningMaterials
    \/ LoadMcqBankCall
    \/ BertSimilarityCall
    \/ EvaluateMaterialCall
    \/ CreateEvaluationTableCall
    \/ ReturnToCaller

Spec == Init /\ [][Next]_vars

(***************************************************************************)
(* Properties.                                                             *)
(***************************************************************************)
IsTableCall == call.op = "create_evaluation_table"
Returned == result.kind = "ok"

\* the number of domains predicted positive by the returned call
Positives(r) == Cardinality({i \in DOMAIN r.y_pred : r.y_pred[i] = 1})

\* the lower-cased whitespace-separated tokens of a text: its maximal runs
\* of non-whitespace characters
TokenSet(text) ==
    {Lower(SubSeq(text, i, j)) : <<i, j>> \in
        {<<i, j>> \in (DOMAIN text) \X (DOMAIN text) :
            /\ i <= j
            /\ \A k \in i..j : text[k] \notin Whitespace
            /\ (i = 1 \/ text[i - 1] \in Whitespace)
            /\ (j = Len(text) \/ text[j + 1] \in Whitespace)}}

\* C1: create_evaluation_table called with an empty domains sequence returns
\* normally with no rows and accuracy, precision, recall and f1 all 0.0.
C1_EmptyDomainsZeroMetrics ==
    (IsTableCall /\ call.domains = <<>>) =>
        /\ Returned
        /\ result.table = <<>>
        /\ result.metrics =
              [accuracy |-> Zero, precision |-> Zero, recall |-> Zero, f1 |-> Zero]

\* C2: under the lexical fallback bert_similarity(a, b) is |A n B| / |A u B| for
\* the sets A, B of lower-cased whitespace-separated tokens of a and b, 1.0 when
\* both sets are empty, always in [0, 1], and 0.5 for "the cat sat" against
\* "the dog sat".
C2_FallbackIsJaccard ==
    (call.op = "bert_similarity" /\ MODEL = "None") =>
        LET A == TokenSet(call.text_a)
            B == TokenSet(call.text_b)
        IN  /\ Returned
            /\ (A = {} /\ B = {}) => result.value = One
            /\ ~(A = {} /\ B = {}) =>
                  /\ result.value[2] > 0
                  /\ result.value[1] * Cardinality(A \cup B)
                        = Cardinality(A \cap B) * result.value[2]
            /\ 0 <= result.value[1] /\ result.value[1] <= result.value[2]
            /\ (call.text_a = TheCatSat /\ call.text_b = TheDogSat) =>
                  result.value = <<1, 2>>

C2_Witness ==
    /\ call.op = "bert_similarity" /\ MODEL = "None"
    /\ call.text_a = TheCatSat /\ call.text_b = TheDogSat
    /\ result.value = <<1, 2>>

\* C3 (as claimed): every domain with no entry in the question bank gets one
\* row, without error, whose MCQs block is empty and whose material is the
\* sentinel "No materials available for this topic.".
C3_MissingBankEntryGivesSentinel ==
    IsTableCall =>
        \A i \in DOMAIN call.domains :
            call.domains[i] \notin DOMAIN call.mcq_bank =>
                /\ Returned
                /\ Len(result.table) = Len(call.domains)
                /\ result.table[i].Domain = call.domains[i]
                /\ result.table[i].MCQs = <<>>
                /\ result.table[i].Material = NoMaterial

\* C3 (amended): every domain with no entry in the question bank gets one row,
\* without error, whose MCQs block is empty; its material is the sentinel when
\* the domain has no reference text either, and its reference text otherwise.
C3_MissingBankEntryGivesEmptyMcqs ==
    IsTableCall =>
        \A i \in DOMAIN call.domains :
            call.domains[i] \notin DOMAIN call.mcq_bank =>
                /\ Returned
                /\ Len(result.table) = Len(call.domains)
                /\ result.table[i].Domain = call.domains[i]
                /\ result.table[i].MCQs = <<>>
                /\ result.table[i].Material =
                      IF call.domains[i] \in DOMAIN LEARNING_MATERIALS
                      THEN LEARNING_MATERIALS[call.domains[i]]
                      ELSE NoMaterial

C3_Witness ==
    /\ IsTableCall /\ Returned
    /\ call.mcq_bank # <<>>
    /\ \E i \in DOMAIN call.domains :
          /\ call.domains[i] \notin DOMAIN call.mcq_bank
          /\ call.domains[i] \notin DOMAIN LEARNING_MATERIALS
          /\ result.table[i].MCQs = <<>>
          /\ result.table[i].Material = NoMaterial
    /\ \E i \in DOMAIN call.domains : result.table[i].MCQs # <<>>

\* C4: for a domain absent from LEARNING_MATERIALS, evaluate_material(c, d)
\* returns exactly bert_similarity(c, "") and does not raise.
C4_MissingReferenceIsEmptyString ==
    (call.op = "evaluate_material" /\ call.domain \notin DOMAIN LEARNING_MATERIALS) =>
        /\ Returned
        /\ result.value = bert_similarity(call.material, EmptyText)

C4_Witness ==
    /\ call.op = "evaluate_material"
    /\ call.domain \notin DOMAIN LEARNING_MATERIALS
    /\ call.material = NoMaterial
    /\ MODEL = "None"
    /\ result.value = Zero

\* C5: the verdict of a row depends on the raw score alone, with strict cutoffs
\* tested in order: above 0.9 Excellent, otherwise above 0.7 Good, otherwise
\* Moderate; a score of exactly 0.9 is Good and one of exactly 0.7 Moderate,
\* whatever the classification threshold.
C5_VerdictStrictCutoffs ==
    (IsTableCall /\ Returned) =>
        \A i \in DOMAIN result.table :
            LET n == result.scores[i][1]
                d == result.scores[i][2]
                verdict == result.table[i].Description
            IN  /\ 10 * n > 9 * d =>
                      verdict = "Excellent alignment with reference material."
                /\ (10 * n <= 9 * d /\ 10 * n > 7 * d) =>
                      verdict = "Good alignment but could improve in specific areas."
                /\ 10 * n <= 7 * d =>
                      verdict = "Moderate alignment, requires improvements in content generation."

C5_Witness ==
    /\ IsTableCall /\ Returned
    /\ call.threshold = One
    /\ \E i \in DOMAIN result.table :
          /\ result.scores[i] = <<9, 10>>
          /\ result.table[i].Description = "Good alignment but could improve in specific areas."
    /\ \E i \in DOMAIN result.table :
          /\ result.scores[i] = <<1, 1>>
          /\ result.table[i].Description = "Excellent alignment with reference material."

\* C6: for a non-empty domains sequence the call returns metrics with
\* accuracy = (domains with score >= threshold) / (domains), recall = accuracy,
\* precision = 1.0 if some domain is predicted positive and 0.0 otherwise, and
\* f1 = 2 * precision * recall / (precision + recall), 0.0 when that sum is 0.
C6_MetricsOfFixedTruth ==
    (IsTableCall /\ call.domains # <<>>) =>
        /\ Returned
        /\ LET n == Len(call.domains)
               k == Cardinality({i \in 1..n :
                        call.threshold[1] * result.scores[i][2]
                            <= result.scores[i][1] * call.threshold[2]})
               m == result.metrics
           IN  /\ m.accuracy = Frac(k, n)
               /\ m.recall = m.accuracy
               /\ m.precision = (IF k > 0 THEN One ELSE Zero)
               /\ m.f1 = (IF k > 0 THEN Frac(2 * k, n + k) ELSE Zero)

C6_Witness ==
    /\ IsTableCall /\ Returned
    /\ Len(call.domains) = 2
    /\ result.metrics.accuracy = <<1, 2>>
    /\ result.metrics.precision = One
    /\ result.metrics.f1 = <<2, 3>>

\* C7 (as claimed): for any domains sequence and thresholds t1 <= t2, the call
\* with t2 predicts no more positives than the call with t1, its accuracy and
\* recall are no larger, and its rows are the same.
C7_ThresholdMonotone ==
    IsTableCall =>
        \A t2 \in Thresholds, on_empty \in SklearnOnEmpty :
            FLeq(call.threshold, t2) =>
                LET other == create_evaluation_table(call.domains, call.mcq_bank, t2, on_empty)
                IN  /\ Returned /\ other.kind = "ok"
                    /\ result.metrics.accuracy # NaN /\ other.metrics.accuracy # NaN
                    /\ Positives(other) <= Positives(result)
                    /\ FLeq(other.metrics.accuracy, result.metrics.accuracy)
                    /\ FLeq(other.metrics.recall, result.metrics.recall)
                    /\ other.table = result.table

\* C7 for the sequences the call returns numbers for: the same, for every
\* non-empty domains sequence.
C7_ThresholdMonotoneNonEmpty ==
    (IsTableCall /\ call.domains # <<>>) => C7_ThresholdMonotone

\* C8: the backend is selected once, during module initialisation and before
\* any call runs; no call changes MODEL or util afterwards, so a failed load is
\* never retried.
C8_BackendSelectedOnce ==
    [][/\ (MODEL # "unset" => MODEL' = MODEL /\ util' = util)
       /\ (call'.op # "none" => MODEL # "unset" /\ pc \notin {"import_sklearn", "load_model"})]_vars

C8_Witness ==
    /\ MODEL = "None" /\ util = {}
    /\ call.op = "bert_similarity"
    /\ call.text_a = PythonLists /\ call.text_b = PythonLists
    /\ result.value = One

\* C9: under the lexical fallback bert_similarity(a, b) = bert_similarity(b, a).
C9_FallbackSymmetric ==
    (call.op = "bert_similarity" /\ MODEL = "None") =>
        result.value = bert_similarity(call.text_b, call.text_a)

C9_Witness ==
    /\ call.op = "bert_similarity" /\ MODEL = "None"
    /\ call.text_a = TheCATSat /\ call.text_b = TheCat
    /\ result.value = <<2, 3>>

IsEndToEndCall ==
    /\ IsTableCall
    /\ call.domains = <<"A", "B">>
    /\ call.threshold = Frac(9, 10)
    /\ LEARNING_MATERIALS = FixtureLookup

\* C10 (as claimed): domains ["A", "B"], references {"A": "python lists",
\* "B": ""} and threshold 0.9 give metrics.accuracy = 0.5.
C10_EndToEndAccuracyHalf ==
    IsEndToEndCall => (Returned /\ result.metrics.accuracy = <<1, 2>>)

\* C10 (amended): that call gives metrics.accuracy = 1.0, both domains scoring
\* at least 0.9: the empty material of "B" against its empty reference is 1.0.
C10_EndToEndAccuracyOne ==
    IsEndToEndCall =>
        /\ Returned
        /\ result.metrics.accuracy = One
        /\ \A i \in 1..2 : FLeq(Frac(9, 10), result.scores[i])
        /\ result.scores[2] = One

C10_Witness ==
    /\ IsEndToEndCall /\ Returned
    /\ MODEL = "None"
    /\ result.scores = <<One, One>>
    /\ result.metrics.accuracy = One

IsLoadCall == call.op = "load_mcq_bank" /\ call.file.exists

\* the data rows of the file that have no value for some required column: the
\* header has no such column, or the row ends before it
RowsLackingRequired(file) ==
    {i \in DOMAIN file.rows :
        \E k \in DOMAIN RequiredKeys :
            \/ RequiredKeys[k] \notin SetOf(file.header)
            \/ \E c \in DOMAIN file.header :
                  file.header[c] = RequiredKeys[k] /\ c > Len(file.rows[i])}

\* the questions of a loaded bank
McqsOf(bank) == UNION {SetOf(bank[d]) : d \in DOMAIN bank}

\* C11: load_mcq_bank fails at load time whenever a row has no value for a
\* required column, and no bank entry holds a defaulted or missing required
\* field; Difficulty alone is optional and is "Beginner" when absent.  (Any
\* exception is taken here as failing fast, whatever its class.)
C11_MissingFieldFailsFast ==
    IsLoadCall =>
        /\ RowsLackingRequired(call.file) # {} => result.kind = "raise"
        /\ Returned =>
              \A mcq \in McqsOf(result.bank) :
                  /\ mcq.question # None
                  /\ mcq.answer # None
                  /\ \A o \in DOMAIN mcq.options : mcq.options[o] # None
                  /\ mcq.difficulty # None

\* C12: under the lexical fallback every row's score is exactly 1.0 when its
\* domain is a key of LEARNING_MATERIALS and exactly 0.0 when it is not; the
\* Good verdict is never emitted, and for a threshold in (0, 1] a domain is
\* predicted positive exactly when it is a key, whatever the question bank.
C12_FallbackScoresAreZeroOrOne ==
    (IsTableCall /\ Returned /\ MODEL = "None") =>
        \A i \in DOMAIN call.domains :
            LET present == call.domains[i] \in DOMAIN LEARNING_MATERIALS
            IN  /\ present => result.scores[i] = <<1, 1>>
                /\ ~present => result.scores[i] = <<0, 1>>
                /\ result.table[i].AccuracyScore = (IF present THEN 10000 ELSE 0)
                /\ result.table[i].Description
                      # "Good alignment but could improve in specific areas."
                /\ (0 < call.threshold[1] /\ call.threshold[1] <= call.threshold[2]) =>
                      (result.y_pred[i] = 1 <=> present)

C12_Witness ==
    /\ IsTableCall /\ Returned /\ MODEL = "None"
    /\ call.threshold = Frac(7, 10)
    /\ call.mcq_bank # <<>>
    /\ \E i, j \in DOMAIN call.domains :
          /\ call.domains[i] \in DOMAIN LEARNING_MATERIALS
          /\ call.domains[j] \notin DOMAIN LEARNING_MATERIALS
          /\ call.domains[j] \in DOMAIN call.mcq_bank
          /\ result.scores[i] = One /\ result.y_pred[i] = 1
          /\ result.scores[j] = Zero /\ result.y_pred[j] = 0

====
